---- MODULE Spec2Model ----
(***************************************************************************)
(* A model of the van Emde Boas tree of src/vEBTree.c: the vEBNode struct, *)
(* its construction, and the member / insert / delete / successor /        *)
(* predecessor routines, each translated from its C code.                  *)
(***************************************************************************)
EXTENDS Integers, Sequences, FiniteSets, TLC

VARIABLES
    tree,   \* the top-level vEBNode* the caller holds (NULL after a failed create)
    ref,    \* ghost: the reference set (inserted and not since deleted)
    last,   \* ghost: the last call made and what it returned
    pc,     \* "running", "exited" (exit(EXIT_FAILURE)), "undefined" (after UB)
    calls   \* ghost: the calls the unrestricted caller has made

vars == <<tree, ref, last, pc, calls>>

RECURSIVE log2_int(_)
RECURSIVE log2_int_short(_)
RECURSIVE BitAnd(_, _)
RECURSIVE vEB_create(_)
RECURSIVE vEB_member(_, _)
RECURSIVE vEB_insert(_, _)
RECURSIVE vEB_successor(_, _)
RECURSIVE vEB_predecessor(_, _)
RECURSIVE vEB_delete(_, _)
RECURSIVE vEB_free(_, _)
RECURSIVE FreeClusters(_, _, _)

-----------------------------------------------------------------------------
(* Bounds of the model.                                                    *)

\* The universe sizes the caller passes to vEB_create.
CreateArgs == {-4, 0, 1, 2, 4, 6, 8, 12, 16}

\* At most this many elements are held at once.
MaxCard == 3

\* Arguments of the unrestricted caller go this far outside [0, U).
Slack == 2

\* The unrestricted caller makes at most this many calls.
MaxCalls == 3

-----------------------------------------------------------------------------
(* The C language: the null pointer, the sentinel, integer division.       *)

NULL == [null |-> TRUE]

EMPTY == -1

\* C's / on ints truncates toward zero (the divisor is positive here).
CDiv(a, b) == IF a >= 0 THEN a \div b ELSE -((-a) \div b)

\* C's % on ints: the remainder has the sign of the dividend.
CMod(a, b) == a - b * CDiv(a, b)

\* C's & on non-negative ints.
BitAnd(a, b) ==
    IF a = 0 \/ b = 0 THEN 0
    ELSE (a % 2) * (b % 2) + 2 * BitAnd(a \div 2, b \div 2)

\* A slip: one less than the exponent.
log2_int_short(x) == IF x <= 2 THEN 0 ELSE 1 + log2_int_short(x \div 2)

\* (int)round(log2(x)); vEB_create calls it on powers of two only, where
\* it is the exact exponent.
log2_int(x) == IF x <= 1 THEN 0 ELSE 1 + log2_int(x \div 2)

-----------------------------------------------------------------------------
(* Construction.                                                           *)

\* A slip: the power-of-two test left out.
InvalidUniverse_small(U) == U < 2

\* The two checks of vEB_create that end the process.
InvalidUniverse(U) == U < 2 \/ BitAnd(U, U - 1) # 0

vEB_create(U) ==
    IF U <= 2
    THEN [u |-> U, min |-> EMPTY, max |-> EMPTY, summary |-> NULL,
          cluster |-> NULL, lower_sqrt |-> 0, upper_sqrt |-> 0]
    ELSE LET lg == log2_int(U)
             half == lg \div 2
             ls == 2 ^ half
             us == 2 ^ (lg - half)
         IN [u |-> U, min |-> EMPTY, max |-> EMPTY,
             summary |-> vEB_create(us),
             cluster |-> [i \in 0 .. us - 1 |-> vEB_create(ls)],
             lower_sqrt |-> ls, upper_sqrt |-> us]

-----------------------------------------------------------------------------
(* Helpers to split and join keys.                                         *)

high(V, x) == CDiv(x, V.lower_sqrt)

\* A slip: the offset taken modulo the number of clusters.
low_upper(V, x) == CMod(x, V.upper_sqrt)

low(V, x) == CMod(x, V.lower_sqrt)

idx(V, h, l) == h * V.lower_sqrt + l

\* V->cluster[h] is an element of the calloc'ed array only for these h;
\* any other index is a read outside the array.
InArray(V, h) == h >= 0 /\ h < V.upper_sqrt

vEB_min(V) == V.min

vEB_max(V) == V.max

\* A slip: off by one at the upper end.
OutOfBounds_off(V, x) == x < 0 \/ x > V.u

\* The bounds test that opens vEB_insert and vEB_delete.
OutOfBounds(V, x) == x < 0 \/ x >= V.u

-----------------------------------------------------------------------------
(* What a call yields.  ub: the call read cluster[h] outside the array.    *)

Ret(v) == [ub |-> FALSE, ret |-> v]

UBq == [ub |-> TRUE, ret |-> 0]

Done(V) == [ub |-> FALSE, err |-> FALSE, V |-> V]

Err(V) == [ub |-> FALSE, err |-> TRUE, V |-> V]

UBm(V) == [ub |-> TRUE, err |-> FALSE, V |-> V]

-----------------------------------------------------------------------------
(* MEMBER                                                                  *)

vEB_member(V, x) ==
    IF V = NULL THEN Ret(0)
    ELSE IF x = V.min \/ x = V.max THEN Ret(1)
    ELSE IF V.u <= 2 THEN Ret(0)
    ELSE IF ~InArray(V, high(V, x)) THEN UBq
    ELSE vEB_member(V.cluster[high(V, x)], low(V, x))

-----------------------------------------------------------------------------
(* INSERT                                                                  *)

\* A slip: only the minimum is set.
vEB_empty_insert_min(V, x) == [V EXCEPT !.min = x]

vEB_empty_insert(V, x) == [V EXCEPT !.min = x, !.max = x]

\* A slip: the membership test left out.
AlreadyThere_never(V, x) == Ret(0)

\* Line 105: the membership test that makes a duplicate insert return.
AlreadyThere(V, x) == vEB_member(V, x)

\* A slip: the new minimum is written but the old one is not carried down.
SwapMin_copy(V, x) ==
    IF x < V.min THEN [V |-> [V EXCEPT !.min = x], x |-> x]
    ELSE [V |-> V, x |-> x]

\* A slip: the swap left out.
SwapMin_keep(V, x) == [V |-> V, x |-> x]

\* Lines 111-113: the smaller of x and V->min stays at the node, the
\* larger one is the value carried below.
SwapMin(V, x) ==
    IF x < V.min THEN [V |-> [V EXCEPT !.min = x], x |-> V.min]
    ELSE [V |-> V, x |-> x]

\* Line 124.
RaiseMax(V, x) == IF x > V.max THEN [V EXCEPT !.max = x] ELSE V

vEB_insert(V, x) ==
    IF OutOfBounds(V, x) THEN Err(V)
    ELSE LET m == AlreadyThere(V, x) IN
    IF m.ub THEN UBm(V)
    ELSE IF m.ret # 0 THEN Done(V)
    ELSE IF V.min = EMPTY THEN Done(vEB_empty_insert(V, x))
    ELSE LET s == SwapMin(V, x)
             V1 == s.V
             x1 == s.x
         IN IF V1.u > 2
            THEN LET h == high(V1, x1)
                     l == low(V1, x1)
                 IN IF ~InArray(V1, h) THEN UBm(V1)
                    ELSE IF V1.cluster[h].min = EMPTY
                    THEN LET si == vEB_insert(V1.summary, h)
                             V2 == [V1 EXCEPT !.summary = si.V,
                                              !.cluster[h] = vEB_empty_insert(@, l)]
                         IN IF si.ub THEN UBm(V2) ELSE Done(RaiseMax(V2, x1))
                    ELSE LET ci == vEB_insert(V1.cluster[h], l)
                             V2 == [V1 EXCEPT !.cluster[h] = ci.V]
                         IN IF ci.ub THEN UBm(V2) ELSE Done(RaiseMax(V2, x1))
            ELSE Done(RaiseMax(V1, x1))

-----------------------------------------------------------------------------
(* SUCCESSOR / PREDECESSOR                                                 *)

\* A slip: the base case looks at the minimum.
SuccessorBase_min(V, x) == IF x = 0 /\ V.min = 1 THEN 1 ELSE EMPTY

\* Lines 133-136: the base case.
SuccessorBase(V, x) == IF x = 0 /\ V.max = 1 THEN 1 ELSE EMPTY

\* A slip: the base case looks at the maximum.
PredecessorBase_max(V, x) == IF x = 1 /\ V.max = 0 THEN 0 ELSE EMPTY

\* Lines 152-155: the base case.
PredecessorBase(V, x) == IF x = 1 /\ V.min = 0 THEN 0 ELSE EMPTY

vEB_successor(V, x) ==
    IF V.u <= 2 THEN Ret(SuccessorBase(V, x))
    ELSE IF V.min # EMPTY /\ x < V.min THEN Ret(V.min)
    ELSE LET h == high(V, x)
             l == low(V, x)
         IN IF ~InArray(V, h) THEN UBq
            ELSE LET max_low == vEB_max(V.cluster[h]) IN
            IF max_low # EMPTY /\ l < max_low
            THEN LET off == vEB_successor(V.cluster[h], l)
                 IN IF off.ub THEN UBq ELSE Ret(idx(V, h, off.ret))
            ELSE LET succ_c == vEB_successor(V.summary, h) IN
                 IF succ_c.ub THEN UBq
                 ELSE IF succ_c.ret = EMPTY THEN Ret(EMPTY)
                 ELSE IF ~InArray(V, succ_c.ret) THEN UBq
                 ELSE Ret(idx(V, succ_c.ret, vEB_min(V.cluster[succ_c.ret])))

vEB_predecessor(V, x) ==
    IF V.u <= 2 THEN Ret(PredecessorBase(V, x))
    ELSE IF V.max # EMPTY /\ x > V.max THEN Ret(V.max)
    ELSE LET h == high(V, x)
             l == low(V, x)
         IN IF ~InArray(V, h) THEN UBq
            ELSE LET min_low == vEB_min(V.cluster[h]) IN
            IF min_low # EMPTY /\ l > min_low
            THEN LET off == vEB_predecessor(V.cluster[h], l)
                 IN IF off.ub THEN UBq ELSE Ret(idx(V, h, off.ret))
            ELSE LET pred_c == vEB_predecessor(V.summary, h) IN
                 IF pred_c.ub THEN UBq
                 ELSE IF pred_c.ret = EMPTY
                 THEN (IF V.min # EMPTY /\ x > V.min THEN Ret(V.min) ELSE Ret(EMPTY))
                 ELSE IF ~InArray(V, pred_c.ret) THEN UBq
                 ELSE Ret(idx(V, pred_c.ret, vEB_max(V.cluster[pred_c.ret])))

-----------------------------------------------------------------------------
(* DELETE                                                                  *)

\* Lines 198-201: the maximum after the cluster of the old maximum emptied.
MaxAfterEmptied(V) ==
    LET smax == vEB_max(V.summary)
    IN IF smax = EMPTY THEN Ret(V.min)
       ELSE IF ~InArray(V, smax) THEN UBq
       ELSE Ret(idx(V, smax, vEB_max(V.cluster[smax])))

\* A slip: the maximum is left as it was.
MaxInCluster_stale(V, h) == V.max

\* Lines 203-205: the maximum when its cluster still holds something.
MaxInCluster(V, h) == idx(V, h, vEB_max(V.cluster[h]))

vEB_delete(V, x) ==
    IF OutOfBounds(V, x) THEN Err(V)
    ELSE IF V.min = V.max THEN Done([V EXCEPT !.min = EMPTY, !.max = EMPTY])
    ELSE IF V.u = 2
    THEN LET r == IF x = 0 THEN 1 ELSE 0
         IN Done([V EXCEPT !.min = r, !.max = r])
    ELSE LET isMin == (x = V.min)
             first == vEB_min(V.summary)
         IN IF isMin /\ ~InArray(V, first) THEN UBm(V)
            ELSE LET x1 == IF isMin THEN idx(V, first, vEB_min(V.cluster[first]))
                           ELSE x
                     V1 == IF isMin THEN [V EXCEPT !.min = x1] ELSE V
                     h == high(V1, x1)
                     l == low(V1, x1)
                 IN IF ~InArray(V1, h) THEN UBm(V1)
                    ELSE LET dc == vEB_delete(V1.cluster[h], l)
                             V2 == [V1 EXCEPT !.cluster[h] = dc.V]
                         IN IF dc.ub THEN UBm(V2)
                            ELSE IF vEB_min(V2.cluster[h]) = EMPTY
                            THEN LET ds == vEB_delete(V2.summary, h)
                                     V3 == [V2 EXCEPT !.summary = ds.V]
                                 IN IF ds.ub THEN UBm(V3)
                                    ELSE IF x1 = V3.max
                                    THEN LET nm == MaxAfterEmptied(V3)
                                         IN IF nm.ub THEN UBm(V3)
                                            ELSE Done([V3 EXCEPT !.max = nm.ret])
                                    ELSE Done(V3)
                            ELSE IF x1 = V2.max
                            THEN Done([V2 EXCEPT !.max = MaxInCluster(V2, h)])
                            ELSE Done(V2)

-----------------------------------------------------------------------------
(* FREE.  A block of the heap is named by the way to it from the top-level *)
(* node: i for cluster[i], SummaryAt for the summary, and ArrayAt for the  *)
(* cluster pointer array of a node.  vEB_free yields the blocks it hands   *)
(* to free(), in the order of the calls.                                   *)

SummaryAt == -1

ArrayAt == -2

\* A slip: the summary is not freed.
vEB_free_leak(V, p) ==
    IF V = NULL THEN <<>>
    ELSE (IF V.cluster # NULL
          THEN FreeClusters(V, p, 0) \o <<Append(p, ArrayAt)>>
          ELSE <<>>)
         \o <<p>>

\* Lines 213-215: the loop over cluster[i], i < upper_sqrt.
FreeClusters(V, p, i) ==
    IF i < V.upper_sqrt
    THEN vEB_free(V.cluster[i], Append(p, i)) \o FreeClusters(V, p, i + 1)
    ELSE <<>>

vEB_free(V, p) ==
    IF V = NULL THEN <<>>
    ELSE (IF V.cluster # NULL
          THEN FreeClusters(V, p, 0) \o <<Append(p, ArrayAt)>>
          ELSE <<>>)
         \o vEB_free(V.summary, Append(p, SummaryAt))
         \o <<p>>

-----------------------------------------------------------------------------
(* The caller: one action per public operation.                            *)

NoCall == [op |-> "create", x |-> 0, ret |-> 0, had |-> FALSE]

\* main: vEB_create(U) either returns the tree or ends the process.
Init ==
    /\ \E U \in CreateArgs :
          /\ last = [NoCall EXCEPT !.x = U]
          /\ IF InvalidUniverse(U)
             THEN tree = NULL /\ pc = "exited"
             ELSE tree = vEB_create(U) /\ pc = "running"
    /\ ref = {}
    /\ calls = 0

Universe == 0 .. tree.u - 1

\* Every int the unrestricted caller passes.
AnyArg == (0 - Slack) .. (tree.u - 1 + Slack)

\* What a call that read outside the cluster array may hand back.
Garbage == {EMPTY, 0, 1}

QueryOps == {"member", "successor", "predecessor"}

Insert(x) ==
    /\ pc = "running"
    /\ Cardinality(ref \cup {x}) <= MaxCard
    /\ LET r == vEB_insert(tree, x)
       IN /\ tree' = r.V
          /\ pc' = IF r.ub THEN "undefined" ELSE "running"
          /\ ref' = IF r.err THEN ref ELSE ref \cup {x}
          /\ last' = [op |-> "insert", x |-> x,
                      ret |-> IF r.err THEN 1 ELSE 0, had |-> x \in ref]

Delete(x) ==
    /\ pc = "running"
    /\ LET r == vEB_delete(tree, x)
       IN /\ tree' = r.V
          /\ pc' = IF r.ub THEN "undefined" ELSE "running"
          /\ ref' = IF r.err THEN ref ELSE ref \ {x}
          /\ last' = [op |-> "delete", x |-> x,
                      ret |-> IF r.err THEN 1 ELSE 0, had |-> x \in ref]

\* vEB_free(tree): the caller's pointer is dead afterwards.  last.x is the
\* number of blocks handed to free(), last.had whether elements were held.
Destroy ==
    /\ pc = "running"
    /\ tree' = NULL
    /\ pc' = "freed"
    /\ UNCHANGED ref
    /\ last' = [op |-> "free", x |-> Len(vEB_free(tree, <<>>)),
                ret |-> 0, had |-> ref # {}]

\* A slip: = for == in the test of line 93 stores x in the minimum.
Ask_assign(name, r, x) ==
    /\ pc = "running"
    /\ tree' = [tree EXCEPT !.min = x]
    /\ UNCHANGED ref
    /\ pc' = "running"
    /\ last' = [op |-> name, x |-> x, ret |-> r.ret, had |-> x \in ref]

\* A query call: it assigns to no field of any node.
Ask(name, r, x) ==
    /\ pc = "running"
    /\ UNCHANGED <<tree, ref>>
    /\ IF r.ub
       THEN /\ pc' = "undefined"
            /\ \E g \in Garbage :
                  last' = [op |-> name, x |-> x, ret |-> g, had |-> x \in ref]
       ELSE /\ pc' = "running"
            /\ last' = [op |-> name, x |-> x, ret |-> r.ret, had |-> x \in ref]

\* A query writes no field of the struct, so a second query in a row would
\* run in the very same tree: the caller makes one query between mutations.
Query(name, r, x) == last.op \notin QueryOps /\ Ask(name, r, x)

Member(x) == Query("member", vEB_member(tree, x), x)

Successor(x) == Query("successor", vEB_successor(tree, x), x)

Predecessor(x) == Query("predecessor", vEB_predecessor(tree, x), x)

\* The disciplined caller: in-range arguments, Delete on present elements.
Disciplined == pc = "running" /\ UNCHANGED calls

Next ==
    \/ Disciplined /\ \E x \in Universe : Insert(x)
    \/ Disciplined /\ \E x \in ref : Delete(x)
    \/ Disciplined /\ \E x \in Universe : Member(x)
    \/ Disciplined /\ \E x \in Universe : Successor(x)
    \/ Disciplined /\ \E x \in Universe : Predecessor(x)

Spec == Init /\ [][Next]_vars

\* The unrestricted caller: any int argument, Delete of anything.
Unrestricted == pc = "running" /\ calls < MaxCalls /\ calls' = calls + 1

NextAny ==
    \/ Unrestricted /\ \E x \in AnyArg : Insert(x)
    \/ Unrestricted /\ \E x \in AnyArg : Delete(x)
    \/ Unrestricted /\ \E x \in AnyArg : Member(x)
    \/ Unrestricted /\ \E x \in AnyArg : Successor(x)
    \/ Unrestricted /\ \E x \in AnyArg : Predecessor(x)

SpecAny == Init /\ [][NextAny]_vars

\* The caller that keeps its arguments in range but does not ask Member
\* before Delete, on the smaller universes.
SmallArgs == {2, 4}

InitSmall == Init /\ last.x \in SmallArgs

NextAbsent ==
    \/ Disciplined /\ \E x \in Universe : Insert(x)
    \/ Disciplined /\ \E x \in Universe : Delete(x)
    \/ Disciplined /\ \E x \in Universe : Member(x)
    \/ Disciplined /\ \E x \in Universe : Successor(x)
    \/ Disciplined /\ \E x \in Universe : Predecessor(x)

SpecAbsent == InitSmall /\ [][NextAbsent]_vars

\* The disciplined caller that also repeats and chains its queries.
NextRepeat ==
    \/ Disciplined /\ \E x \in Universe : Insert(x)
    \/ Disciplined /\ \E x \in ref : Delete(x)
    \/ Disciplined /\ \E x \in Universe : Ask("member", vEB_member(tree, x), x)
    \/ Disciplined
         /\ \E x \in Universe : Ask("successor", vEB_successor(tree, x), x)
    \/ Disciplined
         /\ \E x \in Universe : Ask("predecessor", vEB_predecessor(tree, x), x)

SpecRepeat == Init /\ [][NextRepeat]_vars

\* The disciplined caller that frees the tree at any point.
NextFree ==
    \/ Disciplined /\ \E x \in Universe : Insert(x)
    \/ Disciplined /\ \E x \in ref : Delete(x)
    \/ Disciplined /\ Destroy

SpecFree == Init /\ [][NextFree]_vars

-----------------------------------------------------------------------------
(* The reference set's view of the queries.                                *)

SetMin(S) == CHOOSE m \in S : \A y \in S : m <= y

SetMax(S) == CHOOSE m \in S : \A y \in S : m >= y

RefSuccessor(x) ==
    LET above == {y \in ref : y > x}
    IN IF above = {} THEN EMPTY ELSE SetMin(above)

RefPredecessor(x) ==
    LET below == {y \in ref : y < x}
    IN IF below = {} THEN EMPTY ELSE SetMax(below)

Bit(b) == IF b THEN 1 ELSE 0

\* The tree answers Member as the reference set does.
Consistent == \A x \in Universe : vEB_member(tree, x) = Ret(Bit(x \in ref))

-----------------------------------------------------------------------------
(* Claims.                                                                 *)

\* C1: under the disciplined caller, Member(tree, x) is true exactly for
\* the x in [0, U) of the reference set; it is true right after Insert(x)
\* and false right after Delete(x), and no call reads outside an array.
C1_MemberIsReferenceSet ==
    /\ pc # "undefined"
    /\ pc = "running" =>
          /\ Consistent
          /\ last.op = "member" => last.ret = Bit(last.x \in ref)
          /\ last.op = "insert" => vEB_member(tree, last.x) = Ret(1)
          /\ last.op = "delete" => vEB_member(tree, last.x) = Ret(0)

\* A member found by descending into a cluster of a 16-element universe.
C1_Witness ==
    /\ pc = "running" /\ tree.u = 16
    /\ last.op = "member" /\ last.ret = 1
    /\ last.x # tree.min /\ last.x # tree.max

\* C2: under the disciplined caller, for every x in [0, U), member or not,
\* Successor returns the smallest stored element above x and Predecessor
\* the largest stored element below x, each -1 when there is none.
C2_SuccessorPredecessor ==
    pc = "running" =>
        /\ \A x \in Universe :
              /\ vEB_successor(tree, x) = Ret(RefSuccessor(x))
              /\ vEB_predecessor(tree, x) = Ret(RefPredecessor(x))
        /\ last.op = "successor" => last.ret = RefSuccessor(last.x)
        /\ last.op = "predecessor" => last.ret = RefPredecessor(last.x)

\* The successor of a non-member, found in a later cluster than x's own.
C2_Witness ==
    /\ pc = "running" /\ tree.u = 16
    /\ last.op = "successor" /\ ~last.had
    /\ last.ret # EMPTY /\ last.x > tree.min
    /\ high(tree, last.ret) > high(tree, last.x)

RECURSIVE SummaryMatchesClusters(_)
\* At V and at every node below it: the summary holds i exactly when
\* cluster i holds something.
SummaryMatchesClusters(V) ==
    \/ V.u <= 2
    \/ /\ \A i \in 0 .. V.upper_sqrt - 1 :
             /\ (vEB_member(V.summary, i) = Ret(1))
                   <=> (V.cluster[i].min # EMPTY \/ V.cluster[i].max # EMPTY)
             /\ SummaryMatchesClusters(V.cluster[i])
       /\ SummaryMatchesClusters(V.summary)

\* The tree is one the disciplined caller could hold.
Sound == Consistent /\ SummaryMatchesClusters(tree)

\* C3: Delete(tree, x) of an in-range non-member, on a tree that is empty
\* or holds two or more elements, changes no field of any node.
C3_DeleteOfAbsentIsNoOp ==
    [][(/\ pc = "running" /\ Sound /\ Cardinality(ref) # 1
        /\ last'.op = "delete" /\ last'.x \in Universe /\ ~last'.had)
       => (tree' = tree /\ pc' = "running")]_vars

\* C4: Delete(tree, x) on a tree holding the single element y, with an
\* in-range x other than y, leaves y a member.
C4_CollapseIsMembershipSafe ==
    [][(/\ pc = "running" /\ Sound /\ Cardinality(ref) = 1
        /\ last'.op = "delete" /\ last'.x \in Universe /\ ~last'.had)
       => (\A y \in ref : vEB_member(tree', y) = Ret(1))]_vars

\* C5: under the disciplined caller the root's minimum and maximum are the
\* smallest and largest element of the reference set, both -1 when it is
\* empty (and so equal when it holds one element).
C5_RootMinMax ==
    pc = "running" =>
        /\ tree.min = (IF ref = {} THEN EMPTY ELSE SetMin(ref))
        /\ tree.max = (IF ref = {} THEN EMPTY ELSE SetMax(ref))
        /\ Cardinality(ref) = 1 => tree.min = tree.max

\* The maximum of a 16-element universe was deleted and another element of
\* its cluster took its place.
C5_Witness ==
    /\ pc = "running" /\ tree.u = 16
    /\ last.op = "delete" /\ last.x > tree.max
    /\ Cardinality(ref) >= 2
    /\ high(tree, last.x) = high(tree, tree.max)

\* C6: whatever the caller passes, at every node with U > 2 the summary
\* holds i exactly when cluster i is non-empty.
C6_SummaryInvariant == pc = "running" => SummaryMatchesClusters(tree)

\* C7: Insert and Delete with x < 0 or x >= U report the error and change
\* no field of any node, in every state the unrestricted caller reaches.
C7_OutOfRangeNoMutation ==
    [][(/\ pc = "running"
        /\ last'.op \in {"insert", "delete"}
        /\ last'.x \notin Universe)
       => (last'.ret = 1 /\ tree' = tree /\ pc' = "running")]_vars

\* An out-of-range Delete was reported on a tree that holds elements in
\* its clusters.
C7_Witness ==
    /\ pc = "running" /\ tree.u > 2
    /\ last.op = "delete" /\ last.x >= tree.u /\ last.ret = 1
    /\ tree.min # tree.max

\* C8: under the disciplined caller, Insert of a member changes no field of
\* any node, and after a Delete(x) the value x is no member, however often
\* it had been inserted.
C8_InsertIdempotent ==
    [][/\ (pc = "running" /\ last'.op = "insert" /\ last'.had)
          => (tree' = tree /\ ref' = ref /\ pc' = "running")
       /\ (pc = "running" /\ last'.op = "delete")
          => vEB_member(tree', last'.x) = Ret(0)]_vars

\* A member that is neither minimum nor maximum was inserted again.
C8_Witness ==
    /\ pc = "running" /\ tree.u > 2
    /\ last.op = "insert" /\ last.had
    /\ last.x # tree.min /\ last.x # tree.max

\* C9: Member(tree, x) returns false for every x outside [0, U) and reads
\* no cluster outside the array.
C9_MemberOutOfRangeIsFalse ==
    (last.op = "member" /\ (last.x < 0 \/ last.x >= tree.u))
        => (pc = "running" /\ last.ret = 0)

\* C10: Successor and Predecessor, for any int x, return a stored element
\* or -1 and read no cluster outside the array.
C10_QueriesNeverFault ==
    last.op \in {"successor", "predecessor"}
        => /\ pc = "running"
           /\ last.ret = EMPTY \/ vEB_member(tree, last.ret) = Ret(1)

\* V holds an element: Member is true of some x of its universe.
HoldsElement(V) == \E x \in 0 .. V.u - 1 : vEB_member(V, x) = Ret(1)

\* minimum and maximum of the one node V.
MinMaxAtNode(V) ==
    /\ (V.min = EMPTY) <=> (V.max = EMPTY)
    /\ (V.min = EMPTY) <=> ~HoldsElement(V)
    /\ V.min # EMPTY => (0 <= V.min /\ V.min <= V.max /\ V.max <= V.u - 1)

RECURSIVE MinMaxEverywhere(_)
MinMaxEverywhere(V) ==
    /\ MinMaxAtNode(V)
    /\ V.u > 2 => /\ MinMaxEverywhere(V.summary)
                  /\ \A i \in 0 .. V.upper_sqrt - 1 :
                        MinMaxEverywhere(V.cluster[i])

\* C11: at every node, before and after every public operation, minimum is
\* -1 iff maximum is -1 iff the subtree holds no element, and otherwise
\* 0 <= minimum <= maximum <= U - 1.
C11_MinMaxEverywhere == pc = "running" => MinMaxEverywhere(tree)

\* U is 2, 4, 8, ... (told without the bit trick of vEB_create).
PowerOfTwoFrom2(U) == \E k \in 1 .. 30 : U = 2 ^ k

\* C12: Create(U) fails and yields no tree when U < 2 or U is no power of
\* two; for a power of two >= 2 it returns a tree of that universe with
\* minimum = maximum = -1.
C12_CreateValidatesUniverse ==
    last.op = "create" =>
        IF PowerOfTwoFrom2(last.x)
        THEN /\ pc = "running" /\ tree # NULL
             /\ tree.u = last.x /\ tree.min = EMPTY /\ tree.max = EMPTY
        ELSE pc = "exited" /\ tree = NULL

\* Create(6) ended the process (6 is even but no power of two).
C12_Witness == last.op = "create" /\ last.x = 6 /\ pc = "exited"

\* C13: under the disciplined caller, for a member x with Successor(x) = y
\* not empty, Predecessor(y) = x; and for a member y with Predecessor(y) = x
\* not empty, Successor(x) = y.
C13_SuccessorPredecessorInverse ==
    pc = "running" =>
        \A x \in Universe :
            vEB_member(tree, x) = Ret(1) =>
                LET y == vEB_successor(tree, x)
                    w == vEB_predecessor(tree, x)
                IN /\ ~y.ub /\ ~w.ub
                   /\ y.ret # EMPTY => vEB_predecessor(tree, y.ret) = Ret(x)
                   /\ w.ret # EMPTY => vEB_successor(tree, w.ret) = Ret(x)

\* Successor was asked of a member that is not the minimum, answered from
\* another cluster, and Predecessor of the answer leads back.
C13_Witness ==
    /\ pc = "running" /\ tree.u = 16
    /\ last.op = "successor" /\ last.had /\ last.ret # EMPTY
    /\ last.x # tree.min
    /\ high(tree, last.ret) # high(tree, last.x)
    /\ vEB_predecessor(tree, last.ret) = Ret(last.x)

StoredBelow(V) ==
    {idx(V, h, l) : <<h, l>> \in
        {hl \in (0 .. V.upper_sqrt - 1) \X (0 .. V.lower_sqrt - 1) :
            vEB_member(V.cluster[hl[1]], hl[2]) = Ret(1)}}

\* What Member finds in V.
Elements(V) == {x \in 0 .. V.u - 1 : vEB_member(V, x) = Ret(1)}

MinKeptAbove(V) ==
    /\ V.min # EMPTY =>
          vEB_member(V.cluster[high(V, V.min)], low(V, V.min)) = Ret(0)
    /\ V.min < V.max =>
          vEB_member(V.cluster[high(V, V.max)], low(V, V.max)) = Ret(1)
    /\ StoredBelow(V) = Elements(V) \ {V.min}

RECURSIVE MinKeptAboveEverywhere(_)
MinKeptAboveEverywhere(V) ==
    V.u > 2 => /\ MinKeptAbove(V)
               /\ MinKeptAboveEverywhere(V.summary)
               /\ \A i \in 0 .. V.upper_sqrt - 1 :
                     MinKeptAboveEverywhere(V.cluster[i])

\* C15: at every node with U > 2 the minimum is in none of its clusters, a
\* maximum above the minimum is in clusters[high(max)] at low(max), and the
\* clusters hold exactly the elements other than the minimum (at the root:
\* the reference set without the root's minimum).
C15_MinimumNotInClusters ==
    pc = "running" =>
        /\ MinKeptAboveEverywhere(tree)
        /\ tree.u > 2 => StoredBelow(tree) = ref \ {tree.min}

\* A Delete took the minimum of a tree of 16 that held three elements: the
\* next one was pulled out of its cluster, the largest stays in a cluster.
C15_Witness ==
    /\ pc = "running" /\ tree.u = 16 /\ last.op = "delete"
    /\ Cardinality(ref) = 2 /\ last.x < tree.min /\ tree.min < tree.max
    /\ vEB_member(tree.cluster[high(tree, tree.max)],
                  low(tree, tree.max)) = Ret(1)

\* The one tree that stands for the set S in the empty shape V: the least
\* element at the node, the others split over the clusters by high and low,
\* the summary standing for the set of non-empty clusters.
RECURSIVE Canonical(_, _)
Canonical(V, S) ==
    IF S = {} THEN V
    ELSE LET below == S \ {SetMin(S)}
             W == [V EXCEPT !.min = SetMin(S), !.max = SetMax(S)]
         IN IF V.u <= 2 THEN W
            ELSE [W EXCEPT
                    !.summary = Canonical(@, {high(V, y) : y \in below}),
                    !.cluster = [i \in DOMAIN @ |->
                        Canonical(@[i],
                            {low(V, y) : y \in {z \in below : high(V, z) = i}})]]

\* C16: the tree is a function of the stored set: in every state reached by
\* in-range Inserts and Deletes of present elements, whatever the order of
\* the calls, it is the canonical tree of the reference set, so an Insert of
\* a non-member followed by its Delete gives the earlier tree back.
C16_Canonical ==
    pc = "running" => tree = Canonical(vEB_create(tree.u), ref)

\* An element between two others was deleted from a tree of 16, as after
\* Insert of a non-member and Delete of it.
C16_Witness ==
    /\ pc = "running" /\ tree.u = 16 /\ last.op = "delete" /\ last.had
    /\ Cardinality(ref) = 2
    /\ tree.min < last.x /\ last.x < tree.max
    /\ tree = Canonical(vEB_create(16), ref)

\* Every node of the tree V: V, its summary, its clusters and theirs.
RECURSIVE Nodes(_)
Nodes(V) ==
    IF V.u <= 2 THEN {V}
    ELSE {V} \cup Nodes(V.summary)
             \cup UNION {Nodes(V.cluster[i]) : i \in 0 .. V.upper_sqrt - 1}

\* Insert of the non-member x at the non-empty node V with u > 2.
TouchesOneCluster(V, x) ==
    LET R == vEB_insert(V, x).V
        below == IF x < V.min THEN V.min ELSE x
        h == high(V, below)
        l == low(V, below)
    IN /\ \A i \in 0 .. V.upper_sqrt - 1 :
             i # h => R.cluster[i] = V.cluster[i]
       /\ IF V.cluster[h].min = EMPTY
          THEN /\ vEB_member(V.summary, h) = Ret(0)
               /\ R.summary = vEB_insert(V.summary, h).V
               /\ vEB_member(R.summary, h) = Ret(1)
               /\ R.cluster[h] = [V.cluster[h] EXCEPT !.min = l, !.max = l]
          ELSE /\ R.summary = V.summary
               /\ R.cluster[h] = vEB_insert(V.cluster[h], l).V
               /\ R.cluster[h] # V.cluster[h]
               /\ vEB_member(R.cluster[h], l) = Ret(1)

\* C17: at every node with U > 2 that holds an element, Insert of a
\* non-member changes the one cluster of the value carried below (the larger
\* of x and the old minimum): an empty one gets min = max = l and its index
\* goes into the summary; a non-empty one gets the recursive Insert and the
\* summary stays; every other cluster stays.
C17_InsertTouchesOneCluster ==
    pc = "running" =>
        \A V \in Nodes(tree) :
            (V.u > 2 /\ V.min # EMPTY) =>
                \A x \in 0 .. V.u - 1 :
                    vEB_member(V, x) = Ret(0) => TouchesOneCluster(V, x)

\* Insert of a non-member left a tree of 16 with three elements, two of them
\* in one cluster: the value carried below went into a non-empty cluster.
C17_Witness ==
    /\ pc = "running" /\ tree.u = 16 /\ last.op = "insert" /\ ~last.had
    /\ Cardinality(ref) = 3
    /\ \E i \in 0 .. tree.upper_sqrt - 1 :
          tree.cluster[i].min < tree.cluster[i].max

\* The shape Create gives a node of universe size V.u.
RECURSIVE WellShaped(_)
WellShaped(V) ==
    IF V.u <= 2
    THEN V.summary = NULL /\ V.cluster = NULL
    ELSE /\ V.lower_sqrt * V.upper_sqrt = V.u
         /\ V.summary # NULL /\ V.summary.u = V.upper_sqrt
         /\ WellShaped(V.summary)
         /\ V.cluster # NULL /\ DOMAIN V.cluster = 0 .. V.upper_sqrt - 1
         /\ \A i \in DOMAIN V.cluster :
               /\ V.cluster[i] # NULL /\ V.cluster[i].u = V.lower_sqrt
               /\ WellShaped(V.cluster[i])

\* V with every minimum and maximum wiped: what is left is u, lower_sqrt,
\* upper_sqrt and the children of every node.
RECURSIVE Blank(_)
Blank(V) ==
    LET W == [V EXCEPT !.min = EMPTY, !.max = EMPTY]
    IN IF V.u <= 2 THEN W
       ELSE [W EXCEPT !.summary = Blank(@),
                      !.cluster = [i \in DOMAIN @ |-> Blank(@[i])]]

\* C18: the tree has the shape of Create in every state a call starts from
\* (lower_sqrt * upper_sqrt = u, a summary of size upper_sqrt, upper_sqrt
\* clusters of size lower_sqrt, no children at u <= 2), right after Create
\* every minimum and maximum is -1, and no call changes any node's u,
\* lower_sqrt, upper_sqrt or children.
C18_ShapeFixed ==
    [][pc = "running"
       => /\ WellShaped(tree)
          /\ last.op = "create" => tree = Blank(tree)
          /\ Blank(tree') = Blank(tree)]_vars

\* A Delete left elements in a tree of 16, whose shape is that of Create.
C18_Witness ==
    /\ pc = "running" /\ tree.u = 16 /\ last.op = "delete" /\ ref # {}
    /\ tree # Blank(tree)
    /\ Blank(tree) = vEB_create(16)

\* The children of V are smaller than V, and a node with u <= 2 has none.
ChildrenSmaller(V) ==
    IF V.u <= 2
    THEN V.summary = NULL /\ V.cluster = NULL
    ELSE /\ V.summary.u < V.u
         /\ \A i \in 0 .. V.upper_sqrt - 1 : V.cluster[i].u < V.u

\* C19: every call terminates: no call of the in-range caller, on present or
\* absent values, has followed a cluster pointer read outside the cluster
\* array, so every recursive call went to a summary or a cluster of the node,
\* and at every node these have a strictly smaller universe, none at u <= 2.
C19_CallsDescend ==
    /\ pc # "undefined"
    /\ pc = "running" => \A V \in Nodes(tree) : ChildrenSmaller(V)

\* The blocks vEB_create allocates for the tree V at p: one per node
\* (malloc, line 35) and one per cluster array (calloc, line 62).
RECURSIVE Allocated(_, _)
Allocated(V, p) ==
    IF V.u <= 2 THEN {p}
    ELSE {p, Append(p, ArrayAt)}
         \cup Allocated(V.summary, Append(p, SummaryAt))
         \cup UNION {Allocated(V.cluster[i], Append(p, i)) :
                        i \in 0 .. V.upper_sqrt - 1}

\* b is freed before c in the sequence rel.
FreedBefore(rel, b, c) ==
    \E j, k \in 1 .. Len(rel) : j < k /\ rel[j] = b /\ rel[k] = c

\* p is a proper prefix of q: q is a block below the node p.
Below(p, q) == Len(p) < Len(q) /\ SubSeq(q, 1, Len(p)) = p

\* C20: vEB_free of the top-level node hands to free() every block that
\* vEB_create allocated, each exactly once, the blocks below a node before
\* the node and its clusters before its summary, whatever was inserted or
\* deleted in between; vEB_free of a null pointer frees nothing.
C20_DestroyReleasesAll ==
    [][last'.op = "free"
       => LET rel == vEB_free(tree, <<>>)
              all == Allocated(vEB_create(tree.u), <<>>)
          IN /\ {rel[j] : j \in 1 .. Len(rel)} = all
             /\ Len(rel) = Cardinality(all)
             /\ \A b, c \in all : Below(c, b) => FreedBefore(rel, b, c)
             /\ \A c \in all : \A i \in 0 .. tree.u :
                   (Append(c, i) \in all /\ Append(c, SummaryAt) \in all)
                       => FreedBefore(rel, Append(c, i), Append(c, SummaryAt))
             /\ vEB_free(NULL, <<>>) = <<>>
             /\ last'.x = Len(rel) /\ tree' = NULL]_vars

\* A tree of 16 that held elements was freed: 29 blocks.
C20_Witness ==
    /\ pc = "freed" /\ last.op = "free" /\ last.had
    /\ last.x = Cardinality(Allocated(vEB_create(16), <<>>))

====
